---- MODULE Spec2Model ----
(***************************************************************************)
(* A model of the credential cache of src/src/utils/secureStorage.ts.      *)
(*                                                                         *)
(* The file holds two variants of class SecureStorage: the Web Crypto one  *)
(* (lines 34-241) and the secure-ls one (lines 250-347).  The variable     *)
(* `variant` says which one is running; everything else is shared: the     *)
(* backing store (localStorage), the clock (Date.now()), the memo cell of  *)
(* the encryption key, and the calls that are suspended at an await.       *)
(*                                                                         *)
(* Representation.                                                         *)
(*  - A storage key is a sequence of tokens: 'x' is <<"x">> and            *)
(*    'secure_x' is <<"secure_", "x">>, so that prefixing and startsWith   *)
(*    are computed, not assumed.                                           *)
(*  - A stored value is a record [kind, data, exp]: kind "absent" is       *)
(*    getItem's null, "plain" is a raw string `data`, "enc" is the blob    *)
(*    btoa(iv ++ AES-GCM(JSON.stringify({data, expiresAt}))).  exp = 0     *)
(*    stands for expiresAt undefined (both are falsy in the code's test).  *)
(*    The iv is left out: any iv decrypts under the same key.              *)
(*  - crypto.subtle.encrypt and decrypt touch no shared state, so the      *)
(*    await on them is folded into the step that resumes the call once    *)
(*    the awaited key promise has settled.                                 *)
(*  - What an operation hands back is a string: the value, NullRet for     *)
(*    null, VoidRet for a fulfilled Promise<void>, Rejected for a          *)
(*    rejected promise, CipherText for a blob read back as a raw string.   *)
(***************************************************************************)
EXTENDS Integers, Sequences, FiniteSets, TLC

\* ------------------------------------------------------------------ bounds
\* Date.now() runs from 1 to MaxTime.
MaxTime == 3
\* At most MaxOps operations are called in one behaviour.
MaxOps == 3

\* ------------------------------------------------------------ input domains
\* The slots that hold the calls suspended at an await.
Callers == {1, 2}
\* The keys the application passes.
Keys == {<<"x">>}
\* A key of the backing store the component is never given.
OtherKey == <<"other">>
\* "" is the empty string, "v" a token, "big" a string whose encrypted form
\* is too long for the spread call String.fromCharCode(...combined).
Values == {"", "v", "big"}
\* expiresIn: omitted (<<>>), 0, or 1 millisecond.
ExpiresInArgs == {<<>>, <<0>>, <<1>>}

NullRet == "<null>"
VoidRet == "<void>"
Rejected == "<rejected>"
CipherText == "<ciphertext>"

\* ------------------------------------------------------------ stored values
Absent == [kind |-> "absent", data |-> "", exp |-> 0]

Plain(v) == [kind |-> "plain", data |-> v, exp |-> 0]

\* JSON.stringify(storedData) encrypted under the derived key.
Encrypted(v, e) == [kind |-> "enc", data |-> v, exp |-> e]

\* `secure_${key}`
Secure(k) == <<"secure_">> \o k

\* Keys the application may pass as well: the text of a key behind the prefix.
PrefixedKeys == {Secure(k) : k \in Keys}

StoreKeys == Keys \cup PrefixedKeys \cup {Secure(k) : k \in PrefixedKeys} \cup {OtherKey}

\* key.startsWith(tok)
StartsWith(k, tok) == Len(k) > 0 /\ k[1] = tok

\* What localStorage.getItem hands to the caller for a stored value.
RetOf(val) ==
    CASE val.kind = "absent" -> NullRet
      [] val.kind = "plain" -> val.data
      [] OTHER -> CipherText

\* JavaScript truthiness of the string | null localStorage.getItem returns.
Truthy(val) == val.kind = "enc" \/ (val.kind = "plain" /\ val.data # "")

\* expiresIn ? Date.now() + expiresIn : undefined
ExpiresAt(arg, t) == IF arg # <<>> /\ arg[1] # 0 THEN t + arg[1] ELSE 0

\* btoa(String.fromCharCode(...combined)) throws a RangeError for a long buffer.
EncryptOk(v) == v # "big"

\* atob + crypto.subtle.decrypt + JSON.parse succeed only on a blob encrypt made.
DecryptOk(val) == val.kind = "enc"

\* Mutant of IsExpired: an undefined expiresAt counts as time 0.
IsExpiredUndefinedAsZero(val, t) == t > val.exp

\* storedData.expiresAt && Date.now() > storedData.expiresAt
IsExpired(val, t) == val.exp # 0 /\ t > val.exp

VARIABLES
    variant,         \* "webcrypto" | "securels": which class is running
    cryptoAvailable, \* crypto.subtle is defined
    quota,           \* what localStorage.setItem accepts: "free" | "tight" | "full"
    store,           \* localStorage: StoreKeys -> stored value
    now,             \* Date.now()
    encryptionKey,   \* this.encryptionKey: 0 (null) or the derivation that made it
    keyPromise,      \* this.keyPromise: 0 (null) or the derivation it belongs to
    derivs,          \* the derivations started so far, each pending/resolved/rejected
    calls,           \* the suspended call of each caller
    obs,             \* what the operation that returned last did
    outside,         \* the keys of localStorage whose entry no setItem wrote
    nOps,            \* operations called so far
    auth,            \* the auth slice of the Redux store
    defaults,        \* api.defaults.headers.common['Authorization'] (NullRet: not set)
    location,        \* window.location.href
    run,             \* the thunk or api call of each owner that is in flight
    screen,          \* what the /dashboard route renders
    seen,            \* what the interceptor or thunk that ran last did
    loggedOut,       \* logout was dispatched and no login or OAuth callback since
    upload,          \* the FileUpload component
    sockets,         \* the module services/socket.ts and the sockets it created
    otp              \* the Signup or ForgotPassword page

vars == <<variant, cryptoAvailable, quota, store, now, encryptionKey, keyPromise,
          derivs, calls, obs, outside, nOps, auth, defaults, location, run, screen,
          seen, loggedOut, upload, sockets, otp>>

\* The components beside the auth slice.
page == <<upload, sockets, otp>>

\* The application around the credential cache.
app == <<auth, defaults, location, run, screen, seen, loggedOut, page>>

\* What no method of SecureStorage writes.
env == <<variant, cryptoAvailable, quota, app>>

memo == <<encryptionKey, keyPromise, derivs>>

\* --------------------------------------------------------------- records
NoAfter == [op |-> "none", value |-> "", exp |-> 0, fault |-> FALSE, at |-> 0]

Idle == [pc |-> "idle", op |-> "none", key |-> <<>>, value |-> "", exp |-> 0,
         encrypted |-> Absent, plain |-> Absent, awaiting |-> 0, gotKey |-> 0,
         alone |-> FALSE, after |-> NoAfter]

NoObs == [op |-> "none", key |-> <<>>, value |-> "", exp |-> 0, ret |-> "",
          fault |-> FALSE, encrypted |-> Absent, plainAt |-> Absent,
          decrypted |-> FALSE, alone |-> FALSE, at |-> 0, after |-> NoAfter]

AllIdle == \A d \in Callers : calls[d].pc = "idle"

InFlight == Cardinality({d \in Callers : calls[d].pc # "idle"})

\* The operation that returned last, when it was about key k (or was clear), ran
\* alone, and nothing has been called since.
Preceding(k) ==
    IF AllIdle /\ obs.alone /\ (obs.key = k \/ obs.op = "clear")
    THEN [op |-> obs.op, value |-> obs.value, exp |-> obs.exp, fault |-> obs.fault,
          at |-> obs.at]
    ELSE NoAfter

\* A call that starts ends the solitude of every suspended call.
Disturbed == [d \in Callers |->
                IF calls[d].pc = "idle" THEN calls[d]
                ELSE [calls[d] EXCEPT !.alone = FALSE, !.after = NoAfter]]

\* The record an operation leaves in obs when it returns: its arguments, what it
\* handed back, whether localStorage threw, the entries it found under the namespaced
\* key (enc) and under the plain key (plain), whether it called decrypt, and, for a
\* setItem without ttl and for the getItem that follows a setItem, the time at which
\* it returned (no other return time is ever compared).
Observe(op, k, v, e, ret, fault, enc, plain, decrypted, alone, after) ==
    [op |-> op, key |-> k, value |-> v, exp |-> e, ret |-> ret, fault |-> fault,
     encrypted |-> enc, plainAt |-> plain, decrypted |-> decrypted, alone |-> alone,
     at |-> IF e = 0 /\ (op = "setItem" \/ (op = "getItem" /\ after.op = "setItem"))
             THEN now ELSE 0,
     after |-> after]

\* ------------------------------------------------------- the application
\* user.role as the server sends it; "unset" is a user object without role.
Roles == {"unset", "buyer", "seller", "admin"}

\* state.auth.user: null, or a user object.
NoUser == [present |-> FALSE, role |-> "unset"]

User(r) == [present |-> TRUE, role |-> r]

\* initialState of the auth slice.
InitialState == [user |-> NoUser, loading |-> TRUE, error |-> NullRet,
                 isAuthenticated |-> FALSE]

\* Mutant of ProtectedRoute: the loading flag is not looked at.
ProtectedRouteIgnoresLoading(s, children) ==
    IF ~s.user.present THEN "redirect" ELSE children

\* ProtectedRoute: what it renders around `children` in auth state s.
ProtectedRoute(s, children) ==
    IF s.loading THEN "loading"
    ELSE IF ~s.user.present THEN "redirect" ELSE children

\* user.role || 'buyer'
RoleOf(u) == IF u.role = "unset" THEN "buyer" ELSE u.role

\* RoleProtectedRoute: what it renders around `children` in auth state s.
RoleProtectedRoute(s, allowedRoles, children) ==
    IF ~s.isAuthenticated THEN "redirect"
    ELSE IF ~s.user.present THEN "spinner"
    ELSE IF RoleOf(s.user) \notin allowedRoles THEN "denied" ELSE children

\* The element of the /dashboard route: `guarded` as in the App that wraps Navbar and
\* Dashboard in ProtectedRoute alone, `byRole` as in the App that nests
\* RoleProtectedRoute with allowedRoles ['seller', 'admin'] inside it.
Rendered(s) ==
    [guarded |-> ProtectedRoute(s, "children"),
     byRole |-> ProtectedRoute(s, RoleProtectedRoute(s, {"seller", "admin"}, "children"))]

\* The thunks of the auth slice that are modelled, and any other caller of the api
\* client.
Owners == {"checkAuth", "login", "other", "handleOAuthCallback", "updateUserRole"}

\* No thunk or request of the owner is in flight.
NoRun == [pc |-> "idle", authorization |-> NullRet]

NoSeen == [event |-> "none", owner |-> "none", token |-> NullRet, before |-> NullRet,
           authorization |-> NullRet, status |-> 0, rejected |-> FALSE,
           cause |-> "none"]

\* No File object (null); a File has a positive size.
NoFile == [size |-> 0, image |-> FALSE]

\* FileUpload when it is not mounted, and right after it mounted: no selected file,
\* no preview, no upload, no error, no handler on a socket (0), no FileReader at
\* work, no timer, and no upload request in flight.  (uploadedFiles, and the
\* loadFiles request that fills it, are left out.)
NoUpload == [mounted |-> FALSE, listening |-> 0, selectedFile |-> NoFile,
             previewUrl |-> NoFile, reading |-> {}, uploadProgress |-> "null",
             error |-> NullRet, timers |-> 0, posts |-> <<>>]

\* services/socket.ts after `let socket: Socket | null = null`: no socket (0), none
\* created, no initializeSocket call suspended at its await.
NoSockets == [socket |-> 0, made |-> <<>>, awaiting |-> 0]

\* No Signup or ForgotPassword page is open; the fields are those of an open page
\* when it mounts.  `request` is the signup or forgotPassword thunk in flight ("none",
\* "submit" or "resend"), `stepTimer` the ticks until the timeout that moves to step
\* 2 fires (0: none set).  Four fields measure: `age` is the ticks since the request
\* in flight was dispatched, `since` the ticks since the last request that succeeded
\* was dispatched, `gap` what `since` was when the request in flight was dispatched,
\* and `last` how the request that settled last ended ("none", "sent", "failed").
NoOtp == [flow |-> "none", step |-> 1, email |-> FALSE, resendTimer |-> 0,
          canResend |-> FALSE, loading |-> FALSE, request |-> "none",
          stepTimer |-> 0, age |-> 0, since |-> 0, gap |-> 0, last |-> "none"]

\* The state after construction: no key, no promise.  localStorage holds an unrelated
\* key, may hold a value the predecessor plain-storage scheme left under a key, and
\* may hold bytes no encrypt call made under the namespaced form of a key.
InitCache ==
    /\ variant \in {"webcrypto", "securels"}
    /\ cryptoAvailable \in BOOLEAN
    /\ variant = "securels" => cryptoAvailable
    /\ quota \in {"free", "tight", "full"}
    /\ store \in {st \in [StoreKeys -> {Absent, Plain("v")}] :
                    /\ st[OtherKey] = Plain("v")
                    /\ \A sk \in StoreKeys \ Keys :
                          StartsWith(sk, "secure_") /\ StartsWith(Tail(sk), "secure_")
                             => st[sk] = Absent}
    /\ now = 1
    /\ encryptionKey = 0
    /\ keyPromise = 0
    /\ derivs = <<>>
    /\ calls = [c \in Callers |-> Idle]
    /\ obs = NoObs
    /\ outside = {sk \in StoreKeys : store[sk] # Absent}
    /\ nOps = 0

\* The application when the page has loaded: the auth slice in its initialState, no
\* request made, no component mounted.
InitApp(s) ==
    /\ auth = s
    /\ defaults = NullRet
    /\ location = "/dashboard"
    /\ run = [o \in Owners |-> NoRun]
    /\ screen = Rendered(s)
    /\ seen = NoSeen
    /\ loggedOut = FALSE
    /\ upload = NoUpload
    /\ sockets = NoSockets
    /\ otp = NoOtp

Init == InitCache /\ InitApp(InitialState)

\* ----------------------------------------------------------- localStorage
\* localStorage.setItem throws QuotaExceededError: always when the store is full,
\* for the longer encrypted record when room is tight.
WriteOk(val) == quota = "free" \/ (quota = "tight" /\ val.kind = "plain")

\* Mutant of RemoveItemStore: the plain entry is forgotten.
RemoveItemStoreNamespacedOnly(st, k) == [st EXCEPT ![Secure(k)] = Absent]

\* Mutant of RemoveItemStore: the entries are blanked instead of deleted.
RemoveItemStoreBlanks(st, k) == [st EXCEPT ![Secure(k)] = Absent, ![k] = Plain("")]

\* localStorage.removeItem on both forms of the key.
RemoveItemStore(st, k) == [st EXCEPT ![Secure(k)] = Absent, ![k] = Absent]

\* The entries no setItem wrote, after a step that leaves the store st and in which
\* setItem wrote the keys in `written`.
StillOutside(st, written) == {sk \in outside : sk \notin written /\ st[sk] # Absent}

\* --------------------------------------------------- Web Crypto: pure parts
\* Mutant of FallbackStore: the catch block only logs.
FallbackStoreDrops(st, k, v) == st

\* The catch block of setItem: localStorage.setItem(key, value).
FallbackStore(st, k, v) == IF WriteOk(Plain(v)) THEN [st EXCEPT ![k] = Plain(v)] ELSE st

\* encrypt and the write of the namespaced record both went through.
StoredEncrypted(v, e, keyOk) == keyOk /\ EncryptOk(v) /\ WriteOk(Encrypted(v, e))

\* The store setItem leaves: the encrypted record under the namespaced key, or,
\* when encrypt or that write throws, the raw value under the plain key.
SetItemStore(st, k, v, e, keyOk) ==
    IF StoredEncrypted(v, e, keyOk)
    THEN [st EXCEPT ![Secure(k)] = Encrypted(v, e)]
    ELSE FallbackStore(st, k, v)

\* The key of localStorage setItem wrote, if any.
SetItemWrites(k, v, e, keyOk) ==
    IF StoredEncrypted(v, e, keyOk) THEN {Secure(k)}
    ELSE IF WriteOk(Plain(v)) THEN {k} ELSE {}

\* The promise setItem returns: rejected only when the write in the catch block throws.
SetItemRet(v, e, keyOk) ==
    IF StoredEncrypted(v, e, keyOk) \/ WriteOk(Plain(v)) THEN VoidRet ELSE Rejected

\* Whether a localStorage write threw during setItem.
SetItemFault(v, e, keyOk) ==
    IF keyOk /\ EncryptOk(v) THEN ~WriteOk(Encrypted(v, e)) ELSE ~WriteOk(Plain(v))

\* getItem with nothing under the namespaced key: return localStorage.getItem(key).
PlainRet(st, k) == RetOf(st[k])

\* Mutant of GetItemRet: the plain entry wins when there is one.
GetItemRetPlainFirst(st, k, enc, keyOk, t) ==
    IF st[k].kind # "absent" THEN RetOf(st[k])
    ELSE IF keyOk /\ DecryptOk(enc)
         THEN IF IsExpired(enc, t) THEN NullRet ELSE enc.data
         ELSE NullRet

\* Mutant of GetItemRet: no catch block around decrypt and JSON.parse.
GetItemRetThrows(st, k, enc, keyOk, t) ==
    IF keyOk /\ DecryptOk(enc)
    THEN IF IsExpired(enc, t) THEN NullRet ELSE enc.data
    ELSE Rejected

\* What getItem returns once the record under the namespaced key is in hand: its
\* data, null when it has expired, the plain entry when decrypt or parse throws.
GetItemRet(st, k, enc, keyOk, t) ==
    IF keyOk /\ DecryptOk(enc)
    THEN IF IsExpired(enc, t) THEN NullRet ELSE enc.data
    ELSE RetOf(st[k])

\* The store getItem leaves: an expired record is removed.
GetItemStore(st, k, enc, keyOk, t) ==
    IF keyOk /\ DecryptOk(enc) /\ IsExpired(enc, t) THEN RemoveItemStore(st, k) ELSE st

\* clear() of the Web Crypto variant.
WcClearStore(st) ==
    [sk \in StoreKeys |-> IF StartsWith(sk, "secure_") THEN Absent ELSE st[sk]]

\* ------------------------------------------------------ getEncryptionKey
\* Mutant of NeedsDerivation: the promise in flight is not looked at.
NeedsDerivationIgnoresPromise == encryptionKey = 0

\* Neither a cached key nor a promise in flight: a derivation has to start.
NeedsDerivation == encryptionKey = 0 /\ keyPromise = 0

\* crypto.subtle undefined: importKey throws inside the async function at once.
DerivsAfterRequest ==
    IF NeedsDerivation
    THEN Append(derivs, IF cryptoAvailable THEN "pending" ELSE "rejected")
    ELSE derivs

KeyPromiseAfterRequest == IF NeedsDerivation THEN Len(derivs) + 1 ELSE keyPromise

\* The promise the caller awaits; 0 when the cached key is returned.
AwaitedAfterRequest == IF encryptionKey # 0 THEN 0 ELSE KeyPromiseAfterRequest

RequestKey ==
    /\ derivs' = DerivsAfterRequest
    /\ keyPromise' = KeyPromiseAfterRequest
    /\ UNCHANGED encryptionKey

\* this.encryptionKey = key; the promise resolves.
DerivationCompletes(id) ==
    /\ id \in DOMAIN derivs
    /\ derivs[id] = "pending"
    /\ derivs' = [derivs EXCEPT ![id] = "resolved"]
    /\ encryptionKey' = id
    /\ UNCHANGED <<env, store, outside, now, keyPromise, calls, obs, nOps>>

\* ---------------------------------------------------- Web Crypto variant
CanCall == nOps < MaxOps /\ nOps' = nOps + 1

\* A call that suspends takes the first free slot (the slots are interchangeable).
FirstIdle(c) ==
    /\ calls[c].pc = "idle"
    /\ \A d \in Callers : d < c => calls[d].pc # "idle"

\* setItem up to `await this.getEncryptionKey()` inside encrypt.
WcSetItemCall(c, k, v, arg) ==
    /\ variant = "webcrypto"
    /\ FirstIdle(c)
    /\ CanCall
    /\ RequestKey
    /\ calls' = [Disturbed EXCEPT ![c] =
                   [pc |-> "awaitKey", op |-> "setItem", key |-> k, value |-> v,
                    exp |-> ExpiresAt(arg, now), encrypted |-> Absent,
                    plain |-> Absent, awaiting |-> AwaitedAfterRequest, gotKey |-> encryptionKey,
                    alone |-> AllIdle, after |-> Preceding(k)]]
    /\ UNCHANGED <<env, store, outside, now, obs>>

\* getItem whose read of localStorage throws: the catch block's read throws too.
WcGetItemUnreadable(k) ==
    /\ variant = "webcrypto"
    /\ CanCall
    /\ obs' = Observe("getItem", k, "", 0, Rejected, TRUE, Absent, Absent, FALSE,
                      AllIdle, Preceding(k))
    /\ calls' = Disturbed
    /\ UNCHANGED <<env, store, outside, now, memo>>

\* getItem with nothing under the namespaced key: the plain entry is returned.
WcGetItemPlain(k) ==
    /\ variant = "webcrypto"
    /\ CanCall
    /\ ~Truthy(store[Secure(k)])
    /\ obs' = Observe("getItem", k, "", 0, PlainRet(store, k), FALSE, store[Secure(k)],
                      store[k], FALSE, AllIdle, Preceding(k))
    /\ calls' = Disturbed
    /\ UNCHANGED <<env, store, outside, now, memo>>

\* getItem up to `await this.getEncryptionKey()` inside decrypt.
WcGetItemCall(c, k) ==
    /\ variant = "webcrypto"
    /\ FirstIdle(c)
    /\ CanCall
    /\ Truthy(store[Secure(k)])
    /\ RequestKey
    /\ calls' = [Disturbed EXCEPT ![c] =
                   [pc |-> "awaitKey", op |-> "getItem", key |-> k, value |-> "",
                    exp |-> 0, encrypted |-> store[Secure(k)], plain |-> Absent,
                    awaiting |-> AwaitedAfterRequest, gotKey |-> encryptionKey,
                    alone |-> AllIdle, after |-> Preceding(k)]]
    /\ UNCHANGED <<env, store, outside, now, obs>>

KeySettled(c) ==
    IF calls[c].gotKey # 0 THEN TRUE ELSE derivs[calls[c].awaiting] # "pending"

\* The key the caller receives; 0 when the awaited derivation was rejected.
KeyOf(c) ==
    IF calls[c].gotKey # 0 THEN calls[c].gotKey
    ELSE IF derivs[calls[c].awaiting] = "resolved" THEN calls[c].awaiting ELSE 0

\* The awaited key has settled and the rest of setItem runs.
WcSetItemResumes(c) ==
    LET k == calls[c].key
        v == calls[c].value
        e == calls[c].exp
        keyOk == KeyOf(c) # 0
    IN  /\ calls[c].pc = "awaitKey"
        /\ calls[c].op = "setItem"
        /\ KeySettled(c)
        /\ store' = SetItemStore(store, k, v, e, keyOk)
        /\ outside' = StillOutside(store', SetItemWrites(k, v, e, keyOk))
        /\ obs' = Observe("setItem", k, v, e, SetItemRet(v, e, keyOk),
                          SetItemFault(v, e, keyOk), Absent, Absent, FALSE,
                          calls[c].alone, calls[c].after)
        /\ calls' = [calls EXCEPT ![c] = Idle]
        /\ UNCHANGED <<env, now, memo, nOps>>

\* The awaited key has settled and the rest of getItem runs.
WcGetItemResumes(c) ==
    LET k == calls[c].key
        enc == calls[c].encrypted
        keyOk == KeyOf(c) # 0
    IN  /\ calls[c].pc = "awaitKey"
        /\ calls[c].op = "getItem"
        /\ KeySettled(c)
        /\ store' = GetItemStore(store, k, enc, keyOk, now)
        /\ outside' = StillOutside(store', {})
        /\ obs' = Observe("getItem", k, "", 0, GetItemRet(store, k, enc, keyOk, now),
                          FALSE, enc, store[k], TRUE, calls[c].alone, calls[c].after)
        /\ calls' = [calls EXCEPT ![c] = Idle]
        /\ UNCHANGED <<env, now, memo, nOps>>

\* removeItem is synchronous.
WcRemoveItem(k) ==
    /\ variant = "webcrypto"
    /\ CanCall
    /\ store' = RemoveItemStore(store, k)
    /\ outside' = StillOutside(store', {})
    /\ obs' = Observe("removeItem", k, "", 0, VoidRet, FALSE, store[Secure(k)],
                      store[k], FALSE, AllIdle, Preceding(k))
    /\ calls' = Disturbed
    /\ UNCHANGED <<env, now, memo>>

\* clear is synchronous.
WcClear ==
    /\ variant = "webcrypto"
    /\ CanCall
    /\ store' = WcClearStore(store)
    /\ outside' = StillOutside(store', {})
    /\ obs' = Observe("clear", <<>>, "", 0, VoidRet, FALSE, Absent, Absent, FALSE,
                      AllIdle, NoAfter)
    /\ calls' = Disturbed
    /\ UNCHANGED <<env, now, memo>>

\* ----------------------------------------------------- secure-ls: pure parts
\* SecureLS.set writes AES(JSON.stringify(data)) under the name it is given and
\* throws when localStorage.setItem does; setItem then writes the raw value under
\* the plain key, and swallows the error when that write throws too.
LsSetItemStore(st, k, v, e) ==
    IF WriteOk(Encrypted(v, e))
    THEN [st EXCEPT ![Secure(k)] = Encrypted(v, e)]
    ELSE FallbackStore(st, k, v)

\* The key of localStorage the secure-ls setItem wrote, if any.
LsSetItemWrites(k, v, e) ==
    IF WriteOk(Encrypted(v, e)) THEN {Secure(k)}
    ELSE IF WriteOk(Plain(v)) THEN {k} ELSE {}

\* SecureLS.get: '' when nothing (or '') is stored, the JSON text when the stored
\* bytes decrypt, an exception ('Could not parse JSON') when they do not.
LsGet(val) ==
    IF ~Truthy(val) THEN "empty" ELSE IF DecryptOk(val) THEN "json" ELSE "throws"

\* What getItem returns when it does not migrate a plain value.
LsGetItemRet(st, k, t) ==
    LET enc == st[Secure(k)]
    IN  CASE LsGet(enc) = "json" -> IF IsExpired(enc, t) THEN NullRet ELSE enc.data
          [] LsGet(enc) = "throws" -> RetOf(st[k])
          [] OTHER -> NullRet

\* The store getItem leaves when it does not migrate: an expired record is removed.
LsGetItemStore(st, k, t) ==
    IF LsGet(st[Secure(k)]) = "json" /\ IsExpired(st[Secure(k)], t)
    THEN RemoveItemStore(st, k)
    ELSE st

\* s without the first occurrence of tok: String.prototype.replace(tok, '').
RemoveFirst(s, tok) ==
    LET at == {i \in 1..Len(s) : s[i] = tok}
    IN  IF at = {} THEN s
        ELSE LET i == CHOOSE j \in at : \A j2 \in at : j <= j2
             IN  SubSeq(s, 1, i - 1) \o SubSeq(s, i + 1, Len(s))

\* The name clear() hands to SecureLS.remove for a key of localStorage.
ClearedName(sk) == RemoveFirst(RemoveFirst(sk, "secure-ls."), "secure_")

\* clear() of the secure-ls variant: for every key of localStorage that starts with
\* 'secure-ls' or 'secure_', SecureLS.remove deletes the entry named ClearedName.
LsClearStore(st) ==
    LET listed == {sk \in StoreKeys :
                     /\ st[sk].kind # "absent"
                     /\ StartsWith(sk, "secure-ls.") \/ StartsWith(sk, "secure_")}
        removed == {ClearedName(sk) : sk \in listed}
    IN  [sk \in StoreKeys |-> IF sk \in removed THEN Absent ELSE st[sk]]

\* ------------------------------------------------------- secure-ls variant
\* setItem has no await: it runs to its end when called.
LsSetItem(k, v, arg) ==
    LET e == ExpiresAt(arg, now)
    IN  /\ variant = "securels"
        /\ CanCall
        /\ store' = LsSetItemStore(store, k, v, e)
        /\ outside' = StillOutside(store', LsSetItemWrites(k, v, e))
        /\ obs' = Observe("setItem", k, v, e, VoidRet, ~WriteOk(Encrypted(v, e)),
                          Absent, Absent, FALSE, AllIdle, Preceding(k))
        /\ calls' = Disturbed
        /\ UNCHANGED <<env, now, memo>>

\* getItem whose read of localStorage throws: the catch block's read throws too.
LsGetItemUnreadable(k) ==
    /\ variant = "securels"
    /\ CanCall
    /\ obs' = Observe("getItem", k, "", 0, Rejected, TRUE, Absent, Absent, FALSE,
                      AllIdle, Preceding(k))
    /\ calls' = Disturbed
    /\ UNCHANGED <<env, store, outside, now, memo>>

\* getItem that finds a record, finds nothing at all, or catches SecureLS.get's
\* exception.  (`await this.removeItem(key)` has removed the entries before it yields.)
LsGetItem(k) ==
    /\ variant = "securels"
    /\ CanCall
    /\ ~(LsGet(store[Secure(k)]) = "empty" /\ Truthy(store[k]))
    /\ store' = LsGetItemStore(store, k, now)
    /\ outside' = StillOutside(store', {})
    /\ obs' = Observe("getItem", k, "", 0, LsGetItemRet(store, k, now), FALSE,
                      store[Secure(k)], store[k], LsGet(store[Secure(k)]) # "empty",
                      AllIdle, Preceding(k))
    /\ calls' = Disturbed
    /\ UNCHANGED <<env, now, memo>>

\* getItem that finds only a plain value: up to `await this.setItem(key, plainValue)`.
LsGetItemMigrates(c, k) ==
    /\ variant = "securels"
    /\ FirstIdle(c)
    /\ CanCall
    /\ LsGet(store[Secure(k)]) = "empty"
    /\ Truthy(store[k])
    /\ store' = LsSetItemStore(store, k, RetOf(store[k]), 0)
    /\ outside' = StillOutside(store', LsSetItemWrites(k, RetOf(store[k]), 0))
    /\ calls' = [Disturbed EXCEPT ![c] =
                   [pc |-> "migrated", op |-> "getItem", key |-> k,
                    value |-> RetOf(store[k]), exp |-> 0,
                    encrypted |-> store[Secure(k)], plain |-> store[k],
                    awaiting |-> 0, gotKey |-> 0,
                    alone |-> AllIdle, after |-> Preceding(k)]]
    /\ UNCHANGED <<env, now, memo, obs>>

\* The rest of a migrating getItem: localStorage.removeItem(key); return plainValue.
LsMigrationEnds(c) ==
    /\ calls[c].pc = "migrated"
    /\ store' = [store EXCEPT ![calls[c].key] = Absent]
    /\ outside' = StillOutside(store', {})
    /\ obs' = Observe("getItem", calls[c].key, "", 0, calls[c].value, FALSE,
                      calls[c].encrypted, calls[c].plain, FALSE, calls[c].alone,
                      calls[c].after)
    /\ calls' = [calls EXCEPT ![c] = Idle]
    /\ UNCHANGED <<env, now, memo, nOps>>

\* removeItem has no await.
LsRemoveItem(k) ==
    /\ variant = "securels"
    /\ CanCall
    /\ store' = RemoveItemStore(store, k)
    /\ outside' = StillOutside(store', {})
    /\ obs' = Observe("removeItem", k, "", 0, VoidRet, FALSE, store[Secure(k)],
                      store[k], FALSE, AllIdle, Preceding(k))
    /\ calls' = Disturbed
    /\ UNCHANGED <<env, now, memo>>

LsClear ==
    /\ variant = "securels"
    /\ CanCall
    /\ store' = LsClearStore(store)
    /\ outside' = StillOutside(store', {})
    /\ obs' = Observe("clear", <<>>, "", 0, VoidRet, FALSE, Absent, Absent, FALSE,
                      AllIdle, NoAfter)
    /\ calls' = Disturbed
    /\ UNCHANGED <<env, now, memo>>

\* Time passes.  Only the distance from Date.now() to an expiresAt is ever read, so
\* the clock is moved only while some expiresAt exists (in the store, in a suspended
\* call, or in the record of the last operations).
Tick ==
    /\ now < MaxTime
    /\ \/ \E sk \in StoreKeys : store[sk].exp # 0
       \/ \E c \in Callers : calls[c].exp # 0
       \/ obs.exp # 0
       \/ obs.after.exp # 0
    /\ now' = now + 1
    /\ UNCHANGED <<env, store, outside, memo, calls, obs, nOps>>

Next ==
    \/ \E c \in Callers, k \in Keys, v \in Values, arg \in ExpiresInArgs :
           WcSetItemCall(c, k, v, arg)
    \/ \E k \in Keys : WcGetItemUnreadable(k)
    \/ \E k \in Keys : WcGetItemPlain(k)
    \/ \E c \in Callers, k \in Keys : WcGetItemCall(c, k)
    \/ \E id \in 1..MaxOps : DerivationCompletes(id)
    \/ \E c \in Callers : WcSetItemResumes(c)
    \/ \E c \in Callers : WcGetItemResumes(c)
    \/ \E k \in Keys : WcRemoveItem(k)
    \/ WcClear
    \/ \E k \in Keys, v \in Values, arg \in ExpiresInArgs : LsSetItem(k, v, arg)
    \/ \E k \in Keys : LsGetItemUnreadable(k)
    \/ \E k \in Keys : LsGetItem(k)
    \/ \E c \in Callers, k \in Keys : LsGetItemMigrates(c, k)
    \/ \E c \in Callers : LsMigrationEnds(c)
    \/ \E k \in Keys : LsRemoveItem(k)
    \/ LsClear
    \/ Tick

Spec == Init /\ [][Next]_vars

\* ------------------------------------------- keys that carry the prefix themselves
\* The Web Crypto variant called with 'x' and with 'secure_x', localStorage
\* accepting every write.
InitKeys == Init /\ variant = "webcrypto" /\ quota = "free"

NextKeys ==
    \/ \E c \in Callers, k \in Keys \cup PrefixedKeys, v \in Values, arg \in ExpiresInArgs :
           WcSetItemCall(c, k, v, arg)
    \/ \E k \in Keys \cup PrefixedKeys : WcGetItemUnreadable(k)
    \/ \E k \in Keys \cup PrefixedKeys : WcGetItemPlain(k)
    \/ \E c \in Callers, k \in Keys \cup PrefixedKeys : WcGetItemCall(c, k)
    \/ \E id \in 1..MaxOps : DerivationCompletes(id)
    \/ \E c \in Callers : WcSetItemResumes(c)
    \/ \E c \in Callers : WcGetItemResumes(c)
    \/ \E k \in Keys \cup PrefixedKeys : WcRemoveItem(k)
    \/ Tick

SpecKeys == InitKeys /\ [][NextKeys]_vars

\* ------------------------------------- the credential cache, as the application uses it
\* The key 'token'.
TokenKey == CHOOSE k \in Keys : TRUE

\* What the application never writes but through setItem, getItem and removeItem.
cache == <<variant, cryptoAvailable, quota, now, memo, calls, obs>>

\* getItem(k) finds only a plain value and migrates it (secure-ls variant).
Migrates(st, k) ==
    variant = "securels" /\ LsGet(st[Secure(k)]) = "empty" /\ Truthy(st[k])

\* What a getItem(k) that runs with no other call beside it returns.  The key
\* derivation of the Web Crypto variant succeeds where crypto.subtle exists.
ReadRet(st, k, t) ==
    IF variant = "webcrypto"
    THEN IF Truthy(st[Secure(k)])
         THEN GetItemRet(st, k, st[Secure(k)], cryptoAvailable, t)
         ELSE PlainRet(st, k)
    ELSE IF Migrates(st, k) THEN RetOf(st[k]) ELSE LsGetItemRet(st, k, t)

\* The store that getItem(k) leaves.
ReadStore(st, k, t) ==
    IF variant = "webcrypto"
    THEN IF Truthy(st[Secure(k)])
         THEN GetItemStore(st, k, st[Secure(k)], cryptoAvailable, t)
         ELSE st
    ELSE IF Migrates(st, k)
         THEN [LsSetItemStore(st, k, RetOf(st[k]), 0) EXCEPT ![k] = Absent]
         ELSE LsGetItemStore(st, k, t)

\* The key that getItem(k) wrote through setItem, if any.
ReadWrites(st, k) ==
    IF Migrates(st, k) THEN LsSetItemWrites(k, RetOf(st[k]), 0) ELSE {}

\* setItem(k, v) without ttl, run with no other call beside it.
WriteStore(st, k, v) ==
    IF variant = "webcrypto"
    THEN SetItemStore(st, k, v, 0, cryptoAvailable)
    ELSE LsSetItemStore(st, k, v, 0)

WriteRet(v) ==
    IF variant = "webcrypto" THEN SetItemRet(v, 0, cryptoAvailable) ELSE VoidRet

WriteWrites(k, v) ==
    IF variant = "webcrypto"
    THEN SetItemWrites(k, v, 0, cryptoAvailable)
    ELSE LsSetItemWrites(k, v, 0)

\* `if (token)`: neither null nor ''.
TokenGiven(token) == token \notin {NullRet, ""}

\* ------------------------------------------------------------ the auth slice
\* checkAuth.pending and login.pending
Pending(s) == [s EXCEPT !.loading = TRUE, !.error = NullRet]

\* checkAuth.fulfilled
CheckAuthFulfilled(s, payload) ==
    [user |-> payload, loading |-> FALSE, error |-> NullRet,
     isAuthenticated |-> payload.present]

\* Mutant of CheckAuthRejected: the user is left in the state.
CheckAuthRejectedKeepsUser(s) ==
    [s EXCEPT !.loading = FALSE, !.error = NullRet, !.isAuthenticated = FALSE]

\* checkAuth.rejected
CheckAuthRejected(s) ==
    [user |-> NoUser, loading |-> FALSE, error |-> NullRet, isAuthenticated |-> FALSE]

\* login.fulfilled
LoginFulfilled(s, payload) ==
    [user |-> payload, loading |-> FALSE, error |-> NullRet, isAuthenticated |-> TRUE]

\* login.rejected
LoginRejected(s, message) ==
    [s EXCEPT !.loading = FALSE, !.error = message, !.isAuthenticated = FALSE]

\* ------------------------------------------------------------ the api client
\* HTTP status of a response; 0 is an error without response (the network failed, or
\* the request interceptor rejected and nothing was sent).
Statuses == {0, 200, 401, 500}

\* Mutant of InterceptedAuthorization: the token is not put into the header.
InterceptedAuthorizationLeftAlone(token, before) == before

\* The Authorization header of the config the request interceptor returns, `before`
\* being the header the config came with (api.defaults.headers.common).
InterceptedAuthorization(token, before) == IF TokenGiven(token) THEN token ELSE before

\* Mutant of ResponseStore: the token is not removed.
ResponseStoreKeepsToken(st, status) == st

\* The response interceptor: on 401, secureStorage.removeItem('token') ...
ResponseStore(st, status) == IF status = 401 THEN RemoveItemStore(st, TokenKey) ELSE st

\* ... and window.location.href = '/login'.
ResponseLocation(loc, status) == IF status = 401 THEN "/login" ELSE loc

\* A response, or an error without response, settles the request of owner o.
Settles(o, status) ==
    \/ run[o].pc = "sent"
    \/ run[o].pc = "intercept" /\ status = 0

\* What the response interceptor and the thunk it returned to leave in `seen`.
SeenResponse(o, status, cause) ==
    [NoSeen EXCEPT !.event = "response", !.owner = o, !.status = status,
                   !.authorization = run[o].authorization,
                   !.rejected = (status # 200), !.cause = cause]

\* dispatch(checkAuth()): the pending reducer runs, the thunk awaits getItem('token').
CheckAuthDispatched ==
    /\ run["checkAuth"].pc = "idle"
    /\ CanCall
    /\ auth' = Pending(auth)
    /\ screen' = Rendered(auth')
    /\ run' = [run EXCEPT !["checkAuth"].pc = "reading"]
    /\ UNCHANGED <<cache, page, loggedOut, store, outside, defaults, location, seen>>

\* getItem('token') returns: without a token the thunk returns null; with one it sets
\* the default header and calls api.get('/user/profile').
CheckAuthReadsToken ==
    LET token == ReadRet(store, TokenKey, now)
    IN  /\ run["checkAuth"].pc = "reading"
        /\ store' = ReadStore(store, TokenKey, now)
        /\ outside' = StillOutside(store', ReadWrites(store, TokenKey))
        /\ IF TokenGiven(token)
           THEN /\ defaults' = token
                /\ run' = [run EXCEPT !["checkAuth"].pc = "intercept"]
                /\ UNCHANGED <<auth, screen, seen>>
           ELSE /\ auth' = CheckAuthFulfilled(auth, NoUser)
                /\ screen' = Rendered(auth')
                /\ run' = [run EXCEPT !["checkAuth"] = NoRun]
                /\ seen' = [NoSeen EXCEPT !.event = "read", !.owner = "checkAuth",
                                          !.token = token, !.cause = "absent"]
                /\ UNCHANGED defaults
        /\ UNCHANGED <<cache, page, loggedOut, nOps, location>>

\* getItem('token') rejects because localStorage throws: the catch block runs, and
\* its removeItem may throw as well; either way the rejected reducer runs.
CheckAuthCannotRead ==
    /\ run["checkAuth"].pc = "reading"
    /\ \E removed \in BOOLEAN :
          /\ store' = IF removed THEN RemoveItemStore(store, TokenKey) ELSE store
          /\ defaults' = IF removed THEN NullRet ELSE defaults
    /\ outside' = StillOutside(store', {})
    /\ auth' = CheckAuthRejected(auth)
    /\ screen' = Rendered(auth')
    /\ run' = [run EXCEPT !["checkAuth"] = NoRun]
    /\ seen' = [NoSeen EXCEPT !.event = "read", !.owner = "checkAuth",
                              !.token = Rejected, !.rejected = TRUE,
                              !.cause = "unreadable"]
    /\ UNCHANGED <<cache, page, loggedOut, nOps, location>>

\* The request interceptor: getItem('token') at request time, then the request leaves.
RequestIntercepted(o) ==
    LET token == ReadRet(store, TokenKey, now)
        authorization == InterceptedAuthorization(token, defaults)
    IN  /\ run[o].pc = "intercept"
        /\ store' = ReadStore(store, TokenKey, now)
        /\ outside' = StillOutside(store', ReadWrites(store, TokenKey))
        /\ run' = [run EXCEPT ![o] = [pc |-> "sent", authorization |-> authorization]]
        /\ seen' = [NoSeen EXCEPT !.event = "request", !.owner = o, !.token = token,
                                  !.before = defaults,
                                  !.authorization = authorization]
        /\ UNCHANGED <<cache, page, loggedOut, nOps, auth, defaults, location, screen>>

\* The profile request of checkAuth settles: the user is returned, or the response
\* interceptor and then the catch block of the thunk run.
ProfileResponds(status, r) ==
    /\ Settles("checkAuth", status)
    /\ IF status = 200
       THEN /\ auth' = CheckAuthFulfilled(auth, User(r))
            /\ seen' = SeenResponse("checkAuth", status, "verified")
            /\ UNCHANGED <<store, outside, defaults, location>>
       ELSE /\ store' = RemoveItemStore(ResponseStore(store, status), TokenKey)
            /\ outside' = StillOutside(store', {})
            /\ location' = ResponseLocation(location, status)
            /\ defaults' = NullRet
            /\ auth' = CheckAuthRejected(auth)
            /\ seen' = SeenResponse("checkAuth", status, "failed")
    /\ screen' = Rendered(auth')
    /\ run' = [run EXCEPT !["checkAuth"] = NoRun]
    /\ UNCHANGED <<cache, page, loggedOut, nOps>>

\* dispatch(login(...)): the pending reducer runs, api.post('/auth/login') is called.
LoginDispatched ==
    /\ run["login"].pc = "idle"
    /\ CanCall
    /\ auth' = Pending(auth)
    /\ screen' = Rendered(auth')
    /\ run' = [run EXCEPT !["login"].pc = "intercept"]
    /\ loggedOut' = FALSE
    /\ UNCHANGED <<cache, page, store, outside, defaults, location, seen>>

\* The login request settles: the token is stored and the user returned, or the
\* thunk rejects (after the response interceptor, or because setItem rejected).
LoginResponds(status, r) ==
    /\ Settles("login", status)
    /\ IF status = 200
       THEN /\ store' = WriteStore(store, TokenKey, "v")
            /\ outside' = StillOutside(store', WriteWrites(TokenKey, "v"))
            /\ IF WriteRet("v") = Rejected
               THEN auth' = LoginRejected(auth, "Login failed") /\ UNCHANGED defaults
               ELSE auth' = LoginFulfilled(auth, User(r)) /\ defaults' = "v"
            /\ UNCHANGED location
       ELSE /\ store' = ResponseStore(store, status)
            /\ outside' = StillOutside(store', {})
            /\ location' = ResponseLocation(location, status)
            /\ auth' = LoginRejected(auth, "Login failed")
            /\ UNCHANGED defaults
    /\ seen' = SeenResponse("login", status, "none")
    /\ screen' = Rendered(auth')
    /\ run' = [run EXCEPT !["login"] = NoRun]
    /\ UNCHANGED <<cache, page, loggedOut, nOps>>

\* Any other call through the api client (the books service).
OtherRequested ==
    /\ run["other"].pc = "idle"
    /\ CanCall
    /\ run' = [run EXCEPT !["other"].pc = "intercept"]
    /\ UNCHANGED <<cache, page, loggedOut, store, outside, auth, defaults, location, screen, seen>>

OtherResponds(status) ==
    /\ Settles("other", status)
    /\ store' = ResponseStore(store, status)
    /\ outside' = StillOutside(store', {})
    /\ location' = ResponseLocation(location, status)
    /\ seen' = SeenResponse("other", status, "none")
    /\ run' = [run EXCEPT !["other"] = NoRun]
    /\ UNCHANGED <<cache, page, loggedOut, nOps, auth, defaults, screen>>

NextAuth ==
    \/ CheckAuthDispatched
    \/ CheckAuthReadsToken
    \/ CheckAuthCannotRead
    \/ \E o \in Owners : RequestIntercepted(o)
    \/ \E status \in Statuses, r \in Roles : ProfileResponds(status, r)
    \/ LoginDispatched
    \/ \E status \in Statuses, r \in Roles : LoginResponds(status, r)
    \/ OtherRequested
    \/ \E status \in Statuses : OtherResponds(status)

SpecAuth == Init /\ [][NextAuth]_vars

\* ------------------------------------------- the rest of the auth slice
\* The logout reducer after secureStorage.removeItem('token'): the secure-ls
\* removeItem returns a promise and the reducer goes on; the Web Crypto removeItem
\* returns undefined, `.catch` on it throws a TypeError and the draft is dropped.
LogoutState(s) ==
    IF variant = "securels"
    THEN [s EXCEPT !.user = NoUser, !.isAuthenticated = FALSE, !.error = NullRet]
    ELSE s

\* delete api.defaults.headers.common['Authorization'], when the reducer gets there.
LogoutDefaults(d) == IF variant = "securels" THEN NullRet ELSE d

\* clearError
ClearErrorState(s) == [s EXCEPT !.error = NullRet]

\* handleOAuthCallback.fulfilled
HandleOAuthCallbackFulfilled(s, payload) ==
    [user |-> payload, loading |-> FALSE, error |-> NullRet, isAuthenticated |-> TRUE]

\* handleOAuthCallback.rejected
HandleOAuthCallbackRejected(s, message) ==
    [s EXCEPT !.loading = FALSE, !.error = message, !.isAuthenticated = FALSE]

\* updateUserRole.fulfilled
UpdateUserRoleFulfilled(s, payload) ==
    [s EXCEPT !.loading = FALSE, !.user = payload, !.error = NullRet]

\* updateUserRole.rejected
UpdateUserRoleRejected(s, message) == [s EXCEPT !.loading = FALSE, !.error = message]

\* What redux-persist stored of the auth slice when the page was last open: nothing,
\* or user and isAuthenticated (the transform drops loading and error).
Persisted ==
    {[stored |-> b, user |-> NoUser, isAuthenticated |-> FALSE] : b \in BOOLEAN}
       \cup {[stored |-> TRUE, user |-> User(r), isAuthenticated |-> TRUE] : r \in Roles}

\* REHYDRATE: the stored slice replaces the auth state, loading false and error null.
Rehydrated(s, p) ==
    IF ~p.stored THEN s
    ELSE [user |-> p.user, loading |-> FALSE, error |-> NullRet,
          isAuthenticated |-> p.isAuthenticated]

\* dispatch(logout()).
Logout ==
    /\ CanCall
    /\ store' = RemoveItemStore(store, TokenKey)
    /\ outside' = StillOutside(store', {})
    /\ defaults' = LogoutDefaults(defaults)
    /\ auth' = LogoutState(auth)
    /\ screen' = Rendered(auth')
    /\ loggedOut' = TRUE
    /\ UNCHANGED <<cache, page, location, run, seen>>

\* dispatch(clearError()).
ClearError ==
    /\ auth.error # NullRet
    /\ auth' = ClearErrorState(auth)
    /\ screen' = Rendered(auth')
    /\ UNCHANGED <<cache, page, loggedOut, nOps, store, outside, defaults, location,
                   run, seen>>

\* persistStore: the REHYDRATE action arrives, once, while the checkAuth that
\* AppContent dispatches on mount awaits the token and before anything else was
\* dispatched.
Rehydrate(p) ==
    /\ seen = NoSeen
    /\ nOps = 1
    /\ run["checkAuth"].pc = "reading"
    /\ auth' = Rehydrated(auth, p)
    /\ screen' = Rendered(auth')
    /\ seen' = [NoSeen EXCEPT !.event = "rehydrate"]
    /\ UNCHANGED <<cache, page, loggedOut, nOps, store, outside, defaults, location,
                   run>>

\* dispatch(handleOAuthCallback({token, user})): the pending reducer runs, the thunk
\* awaits setItem('token', token).
HandleOAuthCallbackDispatched ==
    /\ run["handleOAuthCallback"].pc = "idle"
    /\ CanCall
    /\ auth' = Pending(auth)
    /\ screen' = Rendered(auth')
    /\ run' = [run EXCEPT !["handleOAuthCallback"].pc = "writing"]
    /\ loggedOut' = FALSE
    /\ UNCHANGED <<cache, page, store, outside, defaults, location, seen>>

\* setItem('token', token) settles: the default header is set and the user returned,
\* or the thunk rejects.
HandleOAuthCallbackSettles(r) ==
    /\ run["handleOAuthCallback"].pc = "writing"
    /\ store' = WriteStore(store, TokenKey, "v")
    /\ outside' = StillOutside(store', WriteWrites(TokenKey, "v"))
    /\ IF WriteRet("v") = Rejected
       THEN /\ auth' = HandleOAuthCallbackRejected(auth, "OAuth authentication failed")
            /\ UNCHANGED defaults
       ELSE /\ auth' = HandleOAuthCallbackFulfilled(auth, User(r))
            /\ defaults' = "v"
    /\ screen' = Rendered(auth')
    /\ run' = [run EXCEPT !["handleOAuthCallback"] = NoRun]
    /\ seen' = [NoSeen EXCEPT !.event = "write", !.owner = "handleOAuthCallback",
                             !.rejected = (WriteRet("v") = Rejected)]
    /\ UNCHANGED <<cache, page, loggedOut, nOps, location>>

\* dispatch(updateUserRole(role)): the pending reducer runs, api.put('/user/role').
UpdateUserRoleDispatched ==
    /\ run["updateUserRole"].pc = "idle"
    /\ CanCall
    /\ auth' = Pending(auth)
    /\ screen' = Rendered(auth')
    /\ run' = [run EXCEPT !["updateUserRole"].pc = "intercept"]
    /\ UNCHANGED <<cache, page, loggedOut, store, outside, defaults, location, seen>>

\* The request of updateUserRole settles.
UpdateUserRoleResponds(status, r) ==
    /\ Settles("updateUserRole", status)
    /\ store' = ResponseStore(store, status)
    /\ outside' = StillOutside(store', {})
    /\ location' = ResponseLocation(location, status)
    /\ auth' = IF status = 200 THEN UpdateUserRoleFulfilled(auth, User(r))
               ELSE UpdateUserRoleRejected(auth, "Failed to update role")
    /\ screen' = Rendered(auth')
    /\ seen' = SeenResponse("updateUserRole", status, "none")
    /\ run' = [run EXCEPT !["updateUserRole"] = NoRun]
    /\ UNCHANGED <<cache, page, loggedOut, nOps, defaults>>

NextSession ==
    \/ NextAuth
    \/ Logout
    \/ ClearError
    \/ \E p \in Persisted : Rehydrate(p)
    \/ HandleOAuthCallbackDispatched
    \/ \E r \in Roles : HandleOAuthCallbackSettles(r)
    \/ UpdateUserRoleDispatched
    \/ \E status \in Statuses, r \in Roles : UpdateUserRoleResponds(status, r)

SpecSession == Init /\ [][NextSession]_vars

\* ------------------------------------------- services/socket.ts and FileUpload
\* initializeSocket calls and uploads the model follows.
MaxSockets == 2

MaxPosts == 2

\* 10 * 1024 * 1024 bytes.
SizeLimit == 10 * 1024 * 1024

\* The files a user picks: a small document, an image of exactly the limit and an
\* image a byte over it.
Files == {[size |-> 1, image |-> FALSE], [size |-> SizeLimit, image |-> TRUE],
          [size |-> SizeLimit + 1, image |-> TRUE]}

\* status of an UploadProgress the server sends with 'upload:progress'.
ProgressStatuses == {"uploading", "completed"}

\* `socket?.connected`
SocketConnected(s) == s.socket # 0 /\ s.made[s.socket].state = "connected"

\* initializeSocket up to its await: it returns the connected socket, or suspends at
\* getItem('token').
InitializeSocketCall(s) ==
    IF SocketConnected(s) THEN s ELSE [s EXCEPT !.awaiting = @ + 1]

\* The model follows another initializeSocket call.
CanInitialize(s) == SocketConnected(s) \/ Len(s.made) + s.awaiting < MaxSockets

\* initializeSocket after its await: without a token it throws, with one io() makes
\* a socket, which starts to connect, and assigns it to the module variable.
InitializeSocketResult(s, token) ==
    IF ~TokenGiven(token)
    THEN [s EXCEPT !.awaiting = @ - 1]
    ELSE [socket |-> Len(s.made) + 1,
          made |-> Append(s.made, [state |-> "connecting", token |-> token]),
          awaiting |-> s.awaiting - 1]

\* disconnectSocket
DisconnectSocketResult(s) ==
    IF s.socket = 0 THEN s
    ELSE [s EXCEPT !.made[s.socket].state = "disconnected", !.socket = 0]

\* getSocket
GetSocket(s) == s.socket

\* Something outside FileUpload calls initializeSocket.
InitializeSocket ==
    /\ CanInitialize(sockets)
    /\ ~SocketConnected(sockets)
    /\ sockets' = InitializeSocketCall(sockets)
    /\ UNCHANGED <<cache, store, outside, nOps, auth, defaults, location, run, screen,
                   seen, loggedOut, upload, otp>>

\* getItem('token') returns to a suspended initializeSocket call.
InitializeSocketResumes ==
    /\ sockets.awaiting > 0
    /\ store' = ReadStore(store, TokenKey, now)
    /\ outside' = StillOutside(store', ReadWrites(store, TokenKey))
    /\ sockets' = InitializeSocketResult(sockets, ReadRet(store, TokenKey, now))
    /\ UNCHANGED <<cache, nOps, auth, defaults, location, run, screen, seen, loggedOut,
                   upload, otp>>

\* The server accepts the connection of socket i.
SocketConnects(i) ==
    /\ i \in 1..Len(sockets.made)
    /\ sockets.made[i].state = "connecting"
    /\ sockets' = [sockets EXCEPT !.made[i].state = "connected"]
    /\ UNCHANGED <<cache, store, outside, nOps, auth, defaults, location, run, screen,
                   seen, loggedOut, upload, otp>>

\* Something calls disconnectSocket.
DisconnectSocket ==
    /\ sockets.socket # 0
    /\ sockets' = DisconnectSocketResult(sockets)
    /\ UNCHANGED <<cache, store, outside, nOps, auth, defaults, location, run, screen,
                   seen, loggedOut, upload, otp>>

\* The effect of FileUpload, user being state.auth.user: without a user it returns
\* at once; with one it calls initializeSocket and then, in the same
\* turn, getSocket, and registers its two handlers on what getSocket returned (0: it
\* returned null and the effect ended before socket.on).
EffectSockets(user, s) == IF user.present THEN InitializeSocketCall(s) ELSE s

EffectListening(user, s) == IF user.present THEN GetSocket(EffectSockets(user, s)) ELSE 0

\* The model follows another run of the effect.
CanRunEffect(user) == user.present => CanInitialize(sockets)

\* The requests of an instance that unmounted: their callbacks set no state.
Orphaned(posts) == [i \in 1..Len(posts) |-> [posts[i] EXCEPT !.live = FALSE]]

\* Mutant of TooLarge: the limit is taken a byte too high.
TooLargeAboveNext(file) == file.size > SizeLimit + 1

\* `file.size > 10 * 1024 * 1024`
TooLarge(file) == file.size > SizeLimit

\* handleFileSelect(file) for the component state u.
HandleFileSelectResult(u, file) ==
    IF TooLarge(file)
    THEN [u EXCEPT !.error = "File size must be less than 10MB"]
    ELSE IF file.image
         THEN [u EXCEPT !.selectedFile = file, !.error = NullRet,
                        !.reading = @ \cup {file}]
         ELSE [u EXCEPT !.selectedFile = file, !.error = NullRet,
                        !.previewUrl = NoFile]

\* The sequence without its i-th element.
Without(seq, i) == SubSeq(seq, 1, i - 1) \o SubSeq(seq, i + 1, Len(seq))

\* What a request through the api client does to localStorage: the request
\* interceptor reads the token, the response interceptor removes it on a 401.
RequestStore(st, status) == ResponseStore(ReadStore(st, TokenKey, now), status)

\* FileUpload mounts: fresh state, and the effect runs.
Mount ==
    /\ ~upload.mounted
    /\ CanRunEffect(auth.user)
    /\ sockets' = EffectSockets(auth.user, sockets)
    /\ upload' = [NoUpload EXCEPT !.mounted = TRUE,
                                  !.listening = EffectListening(auth.user, sockets),
                                  !.posts = upload.posts]
    /\ UNCHANGED <<cache, store, outside, nOps, auth, defaults, location, run, screen,
                   seen, loggedOut, otp>>

\* FileUpload unmounts: the cleanup of the effect takes the handlers off the socket.
Unmount ==
    /\ upload.mounted
    /\ upload' = [NoUpload EXCEPT !.posts = Orphaned(upload.posts)]
    /\ UNCHANGED <<cache, store, outside, nOps, auth, defaults, location, run, screen,
                   seen, loggedOut, sockets, otp>>

\* state.auth.user is replaced while FileUpload is mounted (updateUserRole.fulfilled):
\* the effect depends on [user], so its cleanup runs and then the effect again.
UserChanges(r) ==
    /\ upload.mounted
    /\ auth.user.present
    /\ auth.user # User(r)
    /\ CanRunEffect(User(r))
    /\ auth' = UpdateUserRoleFulfilled(auth, User(r))
    /\ screen' = Rendered(auth')
    /\ sockets' = EffectSockets(User(r), sockets)
    /\ upload' = [upload EXCEPT !.listening = EffectListening(User(r), sockets)]
    /\ UNCHANGED <<cache, store, outside, nOps, defaults, location, run, seen,
                   loggedOut, otp>>

\* The user picks a file in the file input.
HandleFileSelect(file) ==
    /\ upload.mounted
    /\ upload' = HandleFileSelectResult(upload, file)
    /\ UNCHANGED <<cache, store, outside, nOps, auth, defaults, location, run, screen,
                   seen, loggedOut, sockets, otp>>

\* reader.onloadend of the FileReader that read file.
ReaderLoads(file) ==
    /\ file \in upload.reading
    /\ upload' = [upload EXCEPT !.previewUrl = file, !.reading = @ \ {file}]
    /\ UNCHANGED <<cache, store, outside, nOps, auth, defaults, location, run, screen,
                   seen, loggedOut, sockets, otp>>

\* The Upload button, rendered with a selected file and enabled while uploadProgress
\* is null, is pressed: handleUpload up to its await.
HandleUpload ==
    /\ upload.mounted
    /\ upload.selectedFile # NoFile
    /\ upload.uploadProgress = "null"
    /\ Len(upload.posts) + upload.timers < MaxPosts
    /\ upload' = [upload EXCEPT
                     !.uploadProgress = "uploading",
                     !.posts = Append(@, [file |-> upload.selectedFile, live |-> TRUE])]
    /\ UNCHANGED <<cache, store, outside, nOps, auth, defaults, location, run, screen,
                   seen, loggedOut, sockets, otp>>

\* onUploadProgress of the i-th request in flight.
OnUploadProgress(i) ==
    /\ i \in 1..Len(upload.posts)
    /\ upload.posts[i].live
    /\ upload.uploadProgress # "uploading"
    /\ upload' = [upload EXCEPT !.uploadProgress = "uploading"]
    /\ UNCHANGED <<cache, store, outside, nOps, auth, defaults, location, run, screen,
                   seen, loggedOut, sockets, otp>>

\* api.post('/upload/upload') of the i-th request settles: handleUpload goes on after
\* its await, or into its catch block.
UploadResponds(i, status) ==
    /\ i \in 1..Len(upload.posts)
    /\ store' = RequestStore(store, status)
    /\ outside' = StillOutside(store', ReadWrites(store, TokenKey))
    /\ location' = ResponseLocation(location, status)
    /\ upload' =
          IF ~upload.posts[i].live
          THEN [upload EXCEPT !.posts = Without(@, i)]
          ELSE IF status = 200
               THEN [upload EXCEPT !.posts = Without(@, i),
                                   !.uploadProgress = "completed",
                                   !.timers = @ + 1]
               ELSE [upload EXCEPT !.posts = Without(@, i),
                                   !.uploadProgress = "error",
                                   !.error = "Upload failed"]
    /\ UNCHANGED <<cache, nOps, auth, defaults, run, screen, seen, loggedOut, sockets,
                   otp>>

\* A timer that handleUpload set after a completed upload fires, 2000 ms later.
TimerFires ==
    /\ upload.timers > 0
    /\ upload' = [upload EXCEPT !.timers = @ - 1, !.uploadProgress = "null",
                                !.selectedFile = NoFile, !.previewUrl = NoFile]
    /\ UNCHANGED <<cache, store, outside, nOps, auth, defaults, location, run, screen,
                   seen, loggedOut, sockets, otp>>

\* The server, at work on an upload, emits 'upload:progress' on the socket the
\* handlers are registered on: handleProgress.
HandleProgress(status) ==
    /\ upload.listening # 0
    /\ sockets.made[upload.listening].state = "connected"
    /\ Len(upload.posts) > 0
    /\ IF status = "completed"
       THEN upload' = [upload EXCEPT !.uploadProgress = "null",
                                     !.selectedFile = NoFile]
       ELSE /\ upload.uploadProgress # status
            /\ upload' = [upload EXCEPT !.uploadProgress = status]
    /\ UNCHANGED <<cache, store, outside, nOps, auth, defaults, location, run, screen,
                   seen, loggedOut, sockets, otp>>

\* The server emits 'upload:error': handleError.
HandleError ==
    /\ upload.listening # 0
    /\ sockets.made[upload.listening].state = "connected"
    /\ Len(upload.posts) > 0
    /\ upload' = [upload EXCEPT !.uploadProgress = "error", !.error = "upload:error"]
    /\ UNCHANGED <<cache, store, outside, nOps, auth, defaults, location, run, screen,
                   seen, loggedOut, sockets, otp>>

\* The Dashboard with FileUpload, once checkAuth has ended with a user or without
\* one; localStorage accepts every write and holds, beside the unrelated key, at
\* most a token.
InitUpload ==
    /\ InitCache
    /\ quota = "free"
    /\ \A sk \in StoreKeys \ {TokenKey, OtherKey} : store[sk] = Absent
    /\ \E u \in {NoUser, User("seller")} : InitApp(CheckAuthFulfilled(InitialState, u))

NextUpload ==
    \/ InitializeSocket
    \/ InitializeSocketResumes
    \/ \E i \in 1..MaxSockets : SocketConnects(i)
    \/ DisconnectSocket
    \/ Mount
    \/ Unmount
    \/ \E r \in {"seller", "admin"} : UserChanges(r)
    \/ \E file \in Files : HandleFileSelect(file)
    \/ \E file \in Files : ReaderLoads(file)
    \/ HandleUpload
    \/ \E i \in 1..MaxPosts : OnUploadProgress(i)
    \/ \E i \in 1..MaxPosts, status \in Statuses : UploadResponds(i, status)
    \/ TimerFires
    \/ \E status \in ProgressStatuses : HandleProgress(status)
    \/ HandleError

SpecUpload == InitUpload /\ [][NextUpload]_vars

\* The same, with what the browser and the network see to: a request in flight
\* settles, a timer that was set fires, a FileReader finishes, and getItem returns.
SpecUploadFair ==
    /\ InitUpload
    /\ [][NextUpload]_vars
    /\ WF_vars(\E i \in 1..MaxPosts, status \in Statuses : UploadResponds(i, status))
    /\ WF_vars(TimerFires)
    /\ WF_vars(\E file \in Files : ReaderLoads(file))
    /\ WF_vars(InitializeSocketResumes)

\* ------------------------------------------- Signup and ForgotPassword (OTP)
\* setResendTimer(60): seconds until the OTP can be sent again.
Cooldown == 60

\* setTimeout(..., 2000), in ticks of one second.
StepDelay == 2

\* Ticks a request is followed for before it settles.
MaxWait == 2

\* The pages that ask for an OTP.
Flows == {"signup", "forgot"}

\* A count of ticks, followed up to Cooldown.
Later(n) == IF n < Cooldown THEN n + 1 ELSE Cooldown

\* The `loading` the buttons of the page are disabled by: state.auth.loading on
\* Signup, the local state on ForgotPassword.
Loading == IF otp.flow = "signup" THEN auth.loading ELSE otp.loading

\* signup.fulfilled
SignupFulfilled(s) == [s EXCEPT !.loading = FALSE, !.error = NullRet]

\* signup.rejected
SignupRejected(s, message) ==
    [s EXCEPT !.loading = FALSE, !.error = message, !.isAuthenticated = FALSE]

\* The callback of the interval: at 1 (or below) the timer becomes 0, else it goes
\* down by one ...
TimerAfterTick(timer) == IF timer <= 1 THEN 0 ELSE timer - 1

\* ... and at 1 (or below) canResend becomes true.
CanResendAfterTick(timer, canResend) == IF timer <= 1 THEN TRUE ELSE canResend

\* onResendOTP goes past its first line: `if (!canResend || !email) return` on
\* Signup, `if (!canResend) return` on ForgotPassword.
ResendAllowed(o) == IF o.flow = "signup" THEN o.canResend /\ o.email ELSE o.canResend

\* The page after the thunk was fulfilled with success: the first request sets the
\* email and the timeout to step 2, both set the timer to 60 and canResend false.
OtpSent(o) ==
    [o EXCEPT !.email = IF o.request = "submit" THEN TRUE ELSE @,
              !.stepTimer = IF o.request = "submit" /\ @ = 0 THEN StepDelay ELSE @,
              !.resendTimer = Cooldown,
              !.canResend = FALSE,
              !.loading = FALSE,
              !.request = "none",
              !.since = o.age,
              !.last = "sent"]

\* The page after the thunk was rejected.
OtpFailed(o) == [o EXCEPT !.loading = FALSE, !.request = "none", !.last = "failed"]

\* The page mounts: the timer effect finds resendTimer = 0 and sets canResend.
OpenPage(flow) ==
    /\ otp.flow = "none"
    /\ otp' = [NoOtp EXCEPT !.flow = flow, !.canResend = TRUE, !.since = Cooldown,
                            !.gap = Cooldown]
    /\ UNCHANGED <<cache, store, outside, nOps, auth, defaults, location, run, screen,
                   seen, loggedOut, upload, sockets>>

\* The page unmounts, no request in flight.
ClosePage ==
    /\ otp.flow # "none"
    /\ otp.request = "none"
    /\ otp' = NoOtp
    /\ UNCHANGED <<cache, store, outside, nOps, auth, defaults, location, run, screen,
                   seen, loggedOut, upload, sockets>>

\* The form of step 1 is submitted (its button is disabled while loading):
\* onSignupSubmit or onEmailSubmit up to the await.
SubmitForm ==
    /\ otp.flow # "none"
    /\ otp.step = 1
    /\ ~Loading
    /\ otp.request = "none"
    /\ otp' = [otp EXCEPT !.request = "submit", !.age = 0, !.gap = otp.since,
                          !.last = "none", !.loading = (otp.flow = "forgot")]
    /\ auth' = IF otp.flow = "signup" THEN Pending(auth) ELSE auth
    /\ screen' = Rendered(auth')
    /\ UNCHANGED <<cache, store, outside, nOps, defaults, location, run, seen,
                   loggedOut, upload, sockets>>

\* The Resend button of step 2, rendered while canResend and disabled while
\* loading, is pressed: onResendOTP up to the await.
OnResendOTP ==
    /\ otp.flow # "none"
    /\ otp.step = 2
    /\ otp.canResend
    /\ ~Loading
    /\ otp.request = "none"
    /\ ResendAllowed(otp)
    /\ otp' = [otp EXCEPT !.request = "resend", !.age = 0, !.gap = otp.since,
                          !.last = "none", !.loading = (otp.flow = "forgot")]
    /\ auth' = IF otp.flow = "signup" THEN Pending(auth) ELSE auth
    /\ screen' = Rendered(auth')
    /\ UNCHANGED <<cache, store, outside, nOps, defaults, location, run, seen,
                   loggedOut, upload, sockets>>

\* The request of the thunk settles: status 200 with success not false fulfils it,
\* anything else rejects it.
OtpRequestSettles(status, success) ==
    LET sent == status = 200 /\ success
    IN  /\ otp.request # "none"
        /\ store' = RequestStore(store, status)
        /\ outside' = StillOutside(store', ReadWrites(store, TokenKey))
        /\ location' = ResponseLocation(location, status)
        /\ otp' = IF sent THEN OtpSent(otp) ELSE OtpFailed(otp)
        /\ auth' = IF otp.flow # "signup" THEN auth
                   ELSE IF sent THEN SignupFulfilled(auth)
                   ELSE SignupRejected(auth, "Signup failed")
        /\ screen' = Rendered(auth')
        /\ UNCHANGED <<cache, nOps, defaults, run, seen, loggedOut, upload, sockets>>

\* A second passes: the interval of the timer effect fires, the timeout to step 2
\* comes a second closer or fires.  (Time is followed while a timer runs or a
\* measure changes.)
OtpTick ==
    /\ otp.flow # "none"
    /\ otp.request # "none" => otp.age < MaxWait
    /\ \/ otp.resendTimer > 0
       \/ otp.stepTimer > 0
       \/ otp.since < Cooldown
       \/ otp.request # "none"
    /\ otp' = [otp EXCEPT
                  !.resendTimer = IF @ > 0 THEN TimerAfterTick(@) ELSE @,
                  !.canResend = IF otp.resendTimer > 0
                                THEN CanResendAfterTick(otp.resendTimer, @) ELSE @,
                  !.stepTimer = IF @ > 0 THEN @ - 1 ELSE 0,
                  !.step = IF otp.stepTimer = 1 THEN 2 ELSE @,
                  !.since = Later(@),
                  !.age = IF otp.request # "none" THEN Later(@) ELSE @]
    /\ UNCHANGED <<cache, store, outside, nOps, auth, defaults, location, run, screen,
                   seen, loggedOut, upload, sockets>>

\* The Signup or ForgotPassword page of a visitor without session; localStorage
\* accepts every write and holds, beside the unrelated key, at most a token.
InitOtp ==
    /\ InitCache
    /\ quota = "free"
    /\ \A sk \in StoreKeys \ {TokenKey, OtherKey} : store[sk] = Absent
    /\ InitApp(CheckAuthFulfilled(InitialState, NoUser))

NextOtp ==
    \/ \E flow \in Flows : OpenPage(flow)
    \/ ClosePage
    \/ SubmitForm
    \/ OnResendOTP
    \/ \E status \in Statuses, success \in BOOLEAN : OtpRequestSettles(status, success)
    \/ OtpTick

SpecOtp == InitOtp /\ [][NextOtp]_vars

\* ------------------------------------------------------------------ claims
\* An operation returns to its caller in this step.
Returned ==
    nOps' - Cardinality({d \in Callers : calls'[d].pc # "idle"}) = nOps - InFlight + 1

\* The key the operation that returns in this step was called with.
ReturnedKey == obs'.key

\* decrypt had a key: the Web Crypto derivation succeeds where crypto.subtle exists;
\* secure-ls carries its own cipher.
HadKey == variant = "securels" \/ cryptoAvailable

\* C1: a getItem(k) that follows a completed setItem(k, v), v non-empty, no TTL,
\* nothing else called in between and no localStorage call throwing, returns v.
C1_RoundTrip ==
    (/\ obs.op = "getItem"
     /\ obs.after.op = "setItem"
     /\ obs.after.value # ""
     /\ obs.after.exp = 0
     /\ ~obs.after.fault
     /\ ~obs.fault)
        => obs.ret = obs.after.value

\* C2: after a setItem(k, v, ttl) with ttl > 0, a getItem(k) at a time later than
\* write time + ttl returns null and leaves nothing under 'secure_k'.
C2_Expiry ==
    [][(/\ Returned
        /\ obs'.op = "getItem"
        /\ obs'.after.op = "setItem"
        /\ obs'.after.exp # 0
        /\ ~obs'.after.fault
        /\ ~obs'.fault
        /\ now > obs'.after.exp)
           => (obs'.ret = NullRet /\ store'[Secure(ReturnedKey)] = Absent)]_vars

\* C3: in the Web Crypto variant, a setItem(k, v) whose key derivation or encryption
\* fails, with localStorage accepting the write, fulfils and leaves the raw v under
\* the plain key k; and with the cipher provider absent a getItem(k) that follows a
\* completed setItem(k, v) returns v.
C3_DegradedWrite ==
    [][(Returned /\ variant = "webcrypto")
           => /\ (/\ obs'.op = "setItem"
                  /\ ~cryptoAvailable \/ ~EncryptOk(obs'.value)
                  /\ WriteOk(Plain(obs'.value)))
                     => (obs'.ret = VoidRet /\ store'[ReturnedKey] = Plain(obs'.value))
              /\ (/\ obs'.op = "getItem"
                  /\ ~cryptoAvailable
                  /\ obs'.after.op = "setItem"
                  /\ ~obs'.after.fault
                  /\ ~obs'.fault)
                     => obs'.ret = obs'.after.value]_vars

C3_Witness ==
    /\ variant = "webcrypto"
    /\ ~cryptoAvailable
    /\ obs.op = "getItem"
    /\ obs.after.op = "setItem"
    /\ ~obs.after.fault
    /\ obs.ret = obs.after.value
    /\ store[obs.key] = Plain(obs.after.value)

\* The promise or cached key a suspended call is waiting on.
WaitsOn(c) == IF calls[c].gotKey # 0 THEN calls[c].gotKey ELSE calls[c].awaiting

\* C4: one instance starts at most one key derivation, exactly one once a call has
\* asked for the key; every call suspended on the key waits on that one derivation.
C4_SingleFlight ==
    /\ Len(derivs) <= 1
    /\ \A c \in Callers :
         calls[c].pc = "awaitKey" => (Len(derivs) = 1 /\ WaitsOn(c) = 1)
    /\ (variant = "webcrypto" /\ obs.op = "setItem") => Len(derivs) = 1
    /\ encryptionKey # 0 => derivs[encryptionKey] = "resolved"

C4_Witness ==
    /\ \A c \in Callers : calls[c].pc = "awaitKey" /\ calls[c].op = "setItem"
    /\ derivs = <<"pending">>

\* C5: when the entry under 'secure_k' decrypts and parses, getItem(k) returns its
\* data (null once it has expired) whatever is stored under the plain key k.
C5_Precedence ==
    [][(/\ Returned
        /\ obs'.op = "getItem"
        /\ DecryptOk(obs'.encrypted)
        /\ HadKey)
           => obs'.ret = IF IsExpired(obs'.encrypted, now) THEN NullRet
                         ELSE obs'.encrypted.data]_vars

C5_Witness ==
    /\ obs.op = "getItem"
    /\ DecryptOk(obs.encrypted)
    /\ obs.ret = obs.encrypted.data
    /\ obs.plainAt.kind = "plain"
    /\ obs.plainAt.data # obs.ret

\* C6: with a plain value p under k and nothing under 'secure_k', getItem(k)
\* returns p, does not reject and does not call decrypt.
C6_LegacyRead ==
    (/\ obs.op = "getItem"
     /\ ~obs.fault
     /\ obs.encrypted = Absent
     /\ obs.plainAt.kind = "plain")
        => (obs.ret = obs.plainAt.data /\ ~obs.decrypted)

\* C7: getItem rejects only when localStorage throws; it returns null when neither
\* entry exists, and when the entry under 'secure_k' does not decrypt and there is
\* no plain entry.
C7_NeverThrows ==
    obs.op = "getItem"
        => /\ obs.ret = Rejected => obs.fault
           /\ (~obs.fault /\ obs.plainAt = Absent /\ ~DecryptOk(obs.encrypted))
                 => obs.ret = NullRet

C7_Witness ==
    /\ obs.op = "getItem"
    /\ obs.encrypted.kind = "plain"
    /\ obs.decrypted
    /\ obs.plainAt = Absent
    /\ obs.ret = NullRet

\* C8: when removeItem(k) returns neither 'secure_k' nor k is in the store, and a
\* getItem(k) that follows it returns null.
C8_Removal ==
    [][Returned
           => /\ obs'.op = "removeItem"
                    => (store'[Secure(ReturnedKey)] = Absent /\ store'[ReturnedKey] = Absent)
              /\ (obs'.op = "getItem" /\ obs'.after.op = "removeItem" /\ ~obs'.fault)
                    => obs'.ret = NullRet]_vars

C8_Witness ==
    /\ obs.op = "removeItem"
    /\ obs.encrypted.kind = "enc"
    /\ obs.plainAt.kind = "plain"
    /\ store[Secure(obs.key)] = Absent
    /\ store[obs.key] = Absent

\* C9: removeItem(k) on a key with no entry, or right after a removeItem(k), fulfils
\* and leaves the store as it was.
C9_RemoveIdempotent ==
    [][(/\ Returned
        /\ obs'.op = "removeItem"
        /\ \/ (store[Secure(ReturnedKey)] = Absent /\ store[ReturnedKey] = Absent)
           \/ obs'.after.op = "removeItem")
           => (obs'.ret = VoidRet /\ store' = store)]_vars

C9_Witness ==
    /\ obs.op = "removeItem"
    /\ obs.after.op = "removeItem"
    /\ obs.ret = VoidRet

\* C10: when clear() returns, no record that setItem wrote under a key with the
\* prefix 'secure_' is left in the store.
C10_ClearRemovesManaged ==
    [][(Returned /\ obs'.op = "clear")
           => \A sk \in StoreKeys :
                 (StartsWith(sk, "secure_") /\ store[sk].kind = "enc")
                    => store'[sk] = Absent]_vars

\* C11: when clear() returns, every entry that no setItem wrote and whose key does
\* not carry the prefix 'secure_' is in the store as it was before.
C11_ClearFrame ==
    [][(Returned /\ obs'.op = "clear")
           => \A sk \in outside :
                 ~StartsWith(sk, "secure_") => store'[sk] = store[sk]]_vars

\* C12: a setItem, getItem or removeItem on one key leaves the entries of every
\* other key (its namespaced and its plain entry) as they were.
C12_KeyIndependence ==
    [][(Returned /\ obs'.op \in {"setItem", "getItem", "removeItem"})
           => \A k2 \in (Keys \cup PrefixedKeys) \ {ReturnedKey} :
                 store'[k2] = store[k2] /\ store'[Secure(k2)] = store[Secure(k2)]]_vars

\* C13: when localStorage rejects every write, the promise setItem returns is
\* rejected.
C13_WriteRejectionVisible ==
    (obs.op = "setItem" /\ quota = "full") => obs.ret = Rejected

\* C14: a setItem called at time t with a ttl argument, 0 included, builds a record
\* with expiresAt = t + ttl; with the argument omitted the record has no expiresAt.
C14_TtlSemantics ==
    [][\A k \in Keys, v \in Values, arg \in ExpiresInArgs :
          LET expiresAt == IF arg = <<>> THEN 0 ELSE now + arg[1]
          IN  /\ \A c \in Callers :
                    WcSetItemCall(c, k, v, arg) => calls'[c].exp = expiresAt
              /\ (LsSetItem(k, v, arg) /\ WriteOk(Encrypted(v, expiresAt)))
                    => store'[Secure(k)].exp = expiresAt]_vars

MemoAbsent ==
    /\ encryptionKey = 0
    /\ IF keyPromise = 0 THEN TRUE ELSE derivs[keyPromise] = "rejected"

\* C16: a setItem or getItem that asks for the key while none is cached and no
\* derivation is in progress (none started yet, or the last one failed) starts a new
\* derivation.
C16_Rederivation ==
    [][((\E c \in Callers : calls[c].pc = "idle" /\ calls'[c].pc = "awaitKey")
          /\ MemoAbsent)
           => Len(derivs') = Len(derivs) + 1]_vars

\* A checkAuth run ends in this step.
CheckAuthEnds == run["checkAuth"].pc # "idle" /\ run'["checkAuth"].pc = "idle"

\* C17: every checkAuth run ends with loading = false; when the token could not be
\* read, was absent, or the profile request failed it ends with user = null and
\* isAuthenticated = false; after a failed profile request neither entry for
\* 'token' is left in the cache.
C17_CheckAuthNeverCrashes ==
    [][CheckAuthEnds
          => /\ ~auth'.loading
             /\ seen'.cause \in {"unreadable", "absent", "failed", "verified"}
             /\ seen'.cause # "verified"
                   => (auth'.user = NoUser /\ ~auth'.isAuthenticated)
             /\ seen'.cause = "failed"
                   => (store'[Secure(TokenKey)] = Absent /\ store'[TokenKey] = Absent)]_vars

C17_Witness ==
    /\ seen.owner = "checkAuth"
    /\ seen.cause = "failed"
    /\ TokenGiven(seen.authorization)
    /\ run["checkAuth"].pc = "idle"
    /\ ~auth.loading
    /\ auth.user = NoUser
    /\ store[Secure(TokenKey)] = Absent
    /\ store[TokenKey] = Absent

\* C18: when a response with status 401 arrives through the api client, neither
\* entry for 'token' is left in the cache, window.location.href is '/login', and the
\* caller gets a rejection.
C18_LogoutOn401 ==
    [][(/\ \E o \in Owners : run[o].pc = "sent" /\ run'[o].pc = "idle"
        /\ seen'.status = 401)
           => /\ store'[Secure(TokenKey)] = Absent
              /\ store'[TokenKey] = Absent
              /\ location' = "/login"
              /\ seen'.rejected]_vars

C18_Witness ==
    /\ seen.event = "response"
    /\ seen.owner = "other"
    /\ seen.status = 401
    /\ TokenGiven(seen.authorization)
    /\ store[Secure(TokenKey)] = Absent
    /\ store[TokenKey] = Absent
    /\ location = "/login"

\* C19: Navbar and Dashboard are rendered under ProtectedRoute only with loading
\* false and a user; with loading false and no user the route redirects to /login;
\* under RoleProtectedRoute they are rendered only when also isAuthenticated is true
\* and the role of the user, 'buyer' when unset, is 'seller' or 'admin'.
C19_DashboardProtected ==
    /\ screen.guarded = "children" => (~auth.loading /\ auth.user.present)
    /\ (~auth.loading /\ ~auth.user.present)
          => (screen.guarded = "redirect" /\ screen.byRole = "redirect")
    /\ screen.byRole = "children"
          => /\ ~auth.loading
             /\ auth.user.present
             /\ auth.isAuthenticated
             /\ RoleOf(auth.user) \in {"seller", "admin"}

C19_Witness ==
    /\ screen.guarded = "children"
    /\ screen.byRole = "children"
    /\ auth.user.role = "seller"

\* C20: the request interceptor reads getItem('token') when the request is made; with
\* a non-empty token t the request carries Authorization: Bearer t; with null the header is
\* left as the config had it.
C20_TokenInjection ==
    [][\A o \in Owners :
          (run[o].pc = "intercept" /\ run'[o].pc = "sent")
             => /\ seen'.token = ReadRet(store, TokenKey, now)
                /\ TokenGiven(seen'.token) => run'[o].authorization = seen'.token
                /\ seen'.token = NullRet => run'[o].authorization = defaults]_vars

C20_Witness ==
    /\ seen.event = "request"
    /\ seen.token = "v"
    /\ seen.before = NullRet
    /\ run[seen.owner].pc = "sent"
    /\ run[seen.owner].authorization = "v"

\* C23: when a getItem(k) of the secure-ls variant, with no other call beside it,
\* returns a value it found under the plain key, a getItem(k) that follows returns
\* that value again, and the plain entry is gone only if the encrypted record of
\* the value is in the store.
C23_MigrationKeepsValue ==
    [][\A c \in Callers :
          (calls[c].pc = "migrated" /\ calls'[c].pc = "idle" /\ calls[c].alone)
             => /\ ReadRet(store', calls[c].key, now) = calls[c].value
                /\ store'[calls[c].key] = Absent
                      => store'[Secure(calls[c].key)] = Encrypted(calls[c].value, 0)]_vars

\* C24: after a setItem(k, v) of the Web Crypto variant, with no other call beside
\* it, has fulfilled, neither the namespaced nor the plain entry of k holds a value
\* other than v that a setItem wrote.
C24_NoStaleCopy ==
    [][(/\ Returned /\ obs'.op = "setItem" /\ obs'.ret = VoidRet /\ obs'.alone
        /\ variant = "webcrypto")
          => \A sk \in {ReturnedKey, Secure(ReturnedKey)} \ outside' :
                store'[sk] # Absent => store'[sk].data = obs'.value]_vars

\* C25: isAuthenticated is true exactly when user is non-null.
C25_AuthStateInvariant == auth.isAuthenticated <=> auth.user.present

\* No thunk and no request is in flight.
NothingInFlight == \A o \in Owners : run[o].pc = "idle"

\* The credential cache holds an entry for 'token'.
HoldsToken == store[Secure(TokenKey)] # Absent \/ store[TokenKey] # Absent

\* C26: with no thunk in flight, isAuthenticated is true only if the credential
\* cache holds an entry for 'token'.
C26_TokenSessionConsistency == (NothingInFlight /\ auth.isAuthenticated) => HoldsToken

\* C27: from the dispatch of logout until the next dispatch of login or of the OAuth
\* callback, user is null, isAuthenticated is false and the cache holds no entry
\* for 'token'.
C27_LogoutFinal ==
    loggedOut => (auth.user = NoUser /\ ~auth.isAuthenticated /\ ~HoldsToken)

\* The sockets initializeSocket created that were not disconnected.
Live(s) == {i \in 1..Len(s.made) : s.made[i].state # "disconnected"}

\* C30: at most one socket created by initializeSocket exists that has not been
\* disconnected, the module variable returned by getSocket refers to it, and every
\* socket was created with a token that getItem('token') returned.
C30_SingleSocket ==
    /\ Cardinality(Live(sockets)) <= 1
    /\ \A i \in Live(sockets) : GetSocket(sockets) = i
    /\ \A i \in 1..Len(sockets.made) : TokenGiven(sockets.made[i].token)

\* C21: once FileUpload is mounted with a user and the initializeSocket call of its
\* effect has created the socket, the 'upload:progress' and 'upload:error' handlers
\* are registered on that socket.
C21_UploadListeners ==
    (/\ upload.mounted
     /\ auth.user.present
     /\ sockets.awaiting = 0
     /\ GetSocket(sockets) # 0)
        => upload.listening = GetSocket(sockets)

\* C22: selecting a file larger than 10 * 1024 * 1024 bytes sets the error 'File size
\* must be less than 10MB' and leaves selectedFile and previewUrl as they were, and
\* no request handleUpload sent carries a file over the limit.
C22_FileSizeLimit ==
    [][/\ \A file \in Files :
             (file.size > SizeLimit /\ HandleFileSelect(file))
                => /\ upload'.error = "File size must be less than 10MB"
                   /\ upload'.selectedFile = upload.selectedFile
                   /\ upload'.previewUrl = upload.previewUrl
       /\ \A i \in 1..Len(upload'.posts) :
             upload'.posts[i].file.size <= SizeLimit]_vars

C22_Witness ==
    /\ upload.error = "File size must be less than 10MB"
    /\ upload.selectedFile.size = SizeLimit
    /\ upload.previewUrl = upload.selectedFile
    /\ upload.uploadProgress = "uploading"
    /\ \E i \in 1..Len(upload.posts) :
          upload.posts[i].live /\ upload.posts[i].file.size = SizeLimit

\* An upload attempt of the mounted component has ended, completed or failed, and
\* none of its requests is in flight.
AttemptEnded ==
    /\ upload.uploadProgress \in {"completed", "error"}
    /\ \A i \in 1..Len(upload.posts) : ~upload.posts[i].live

\* C28: after every upload attempt ends, completed or failed, uploadProgress
\* eventually returns to null (the Upload button is enabled again).
C28_UploadRetry == AttemptEnded ~> (upload.uploadProgress = "null")

\* C29: two OTP requests of a page that both succeed are dispatched at least 60
\* ticks apart: when a request ends with the OTP sent, the last one before it that
\* succeeded was dispatched at least Cooldown ticks before it was.
C29_ResendCooldown ==
    [][(otp.request # "none" /\ otp'.last = "sent") => otp.gap >= Cooldown]_vars

====
